---- MODULE Spec2Model ----
(***************************************************************************)
(* polytraderai: the research-then-trade stage graph of src/graph.py       *)
(* (create_analysts, theme search, fan-out of interview subgraphs, join,   *)
(* write_recommendation, check_balances, trade_configuration,              *)
(* trade_execution), compiled with a SqliteSaver checkpointer.             *)
(*                                                                         *)
(* One run on a fresh thread is modelled.  The graph runs in supersteps:   *)
(* the nodes of a superstep run, their writes are merged into the state    *)
(* by the per-field reducers, the state is checkpointed with the next      *)
(* nodes, and only then the next superstep starts.  The process may be     *)
(* interrupted at any point (Crash); Resume reloads the last checkpoint    *)
(* and runs its next nodes again.                                          *)
(***************************************************************************)
EXTENDS Integers, Sequences, FiniteSets, TLC

(* ---------------- bounds of the model ---------------- *)
MaxAnalysts == 2
MaxThemes == 1
MaxCrashes == 1
MaxPairs == 4
MaxMarkets == 2
MaxFetched == 2

(* ---------------- program constants ---------------- *)
DefaultMaxNumTurns == 2
ConvictionMin == 0
ConvictionMax == 100
OutcomeIndexMax == 1
ExecutionThreshold == 75
(* The sizing policy that get_trader_instructions writes into the prompt. *)
SizingFloor == 60
HighConviction == 80
MaxTradeSize == 1000
MinOrderSize == 5
MinNotional == 1
(* The odds band of fetch_active_markets, in thousandths: app/ and src/. *)
BandLow == 100
BandHigh == 900
SrcBandLow == 200
SrcBandHigh == 800

(* texts a section writer can return; two branches may return equal text *)
SectionTexts == {"memoA", "memoB"}

(* values of the TRADE_EXECUTION environment variable *)
TradeExecutionSettings == {"true", "TRUE", "false", "unset"}

(* ---------------- messages of an interview ---------------- *)
(* start_interviews_or_create_better_analysts seeds every branch with one  *)
(* HumanMessage.                                                           *)
SeedMessage == [type |-> "human", name |-> "none", thanks |-> FALSE]

(* generate_question returns the model's AIMessage unnamed; thanks says    *)
(* whether its content contains "Thank you so much for your help".         *)
QuestionMessage(thanks) == [type |-> "ai", name |-> "none", thanks |-> thanks]

(* an answer returned as the model gave it, without a name *)
AnswerMessageUnnamed == [type |-> "ai", name |-> "none", thanks |-> FALSE]

(* generate_answer names the model's AIMessage "expert".                   *)
AnswerMessage == [type |-> "ai", name |-> "expert", thanks |-> FALSE]

(* InterviewState as the Send of the router creates it: analyst and        *)
(* messages only; max_num_turns, context, interview, sections are absent.  *)
SendInput(i) ==
    [node |-> "ask_question", analyst |-> i, messages |-> <<SeedMessage>>,
     max_num_turns |-> "absent", context |-> <<>>, interview |-> "absent",
     sections |-> <<>>]

(* a slot of the fan-out that holds no branch *)
NoBranch ==
    [node |-> "none", analyst |-> 0, messages |-> <<>>,
     max_num_turns |-> "absent", context |-> <<>>, interview |-> "absent",
     sections |-> <<>>]

(* ---------------- RunState ---------------- *)
DefaultRecommendation == [outcome_index |-> 0, conviction |-> 0]
DefaultOrderResponse == [status |-> "fail", response |-> "empty"]
PlaceholderOrder == [token_id |-> "", price |-> 0, size |-> 0, side |-> "buy"]
(* balances: dict = {} until get_balances stores {"USDC": amount} *)
NoBalances == {}

InitialState ==
    [market |-> 1,
     analysts |-> <<>>,
     analyst_themes |-> 0,
     sections |-> <<>>,
     final_report |-> "",
     recommendation |-> DefaultRecommendation,
     balances |-> NoBalances,
     order_details |-> PlaceholderOrder,
     order_response |-> DefaultOrderResponse]

VARIABLES
    TRADE_EXECUTION,   \* environment setting read by _trade_execute
    pc,                \* node the run is at, or "END", "failed", "crashed"
    state,             \* RunState (ResearchGraphState) of the thread
    ckpt,              \* last checkpoint: [state, next]
    branch,            \* InterviewState of each conduct_interview task
    pending,           \* writes of finished tasks of the current superstep
    error,             \* exception that failed the run
    crashes,           \* number of interruptions so far
    postOrderCalls,    \* calls of client.post_order
    createOrderCalls,  \* calls of client.create_order
    clientsBuilt,      \* PolymarketTrader() constructions
    execCalls,         \* post_order calls of the latest trade_execution
    rawRecommendation, \* last structured output returned by the completion
    midSubmissionCrash, \* a crash hit while a post_order call was in flight
    callsAtCrash,      \* postOrderCalls at the latest such crash
    executed,          \* nodes after the join that ran to their end, in order
    sized,             \* first OrderDetails the completion returned, with its inputs
    invocation,        \* number of graph.invoke calls made on the thread
    fetched,           \* markets_data the markets endpoint answered with
    fetchResult        \* what fetch_active_markets returned, once called

vars == <<TRADE_EXECUTION, pc, state, ckpt, branch, pending, error, crashes,
          postOrderCalls, createOrderCalls, clientsBuilt, execCalls,
          rawRecommendation, midSubmissionCrash, callsAtCrash,
          executed, sized, invocation, fetched, fetchResult>>

tradeVars == <<postOrderCalls, createOrderCalls, clientsBuilt, execCalls>>
resumeVars == <<midSubmissionCrash, callsAtCrash>>
logVars == <<executed, sized>>
(* what no node of the graph writes: the driver's loop and its fetch *)
driverVars == <<invocation, fetched, fetchResult>>

Slots == 1..MaxAnalysts

(* the markets endpoint has not been asked, or the request raised *)
NoResponse == [ok |-> FALSE, data |-> <<>>]

(* A new thread and a process that has called nothing yet. *)
RunInit ==
    /\ TRADE_EXECUTION \in TradeExecutionSettings
    /\ pc = "create_analysts"
    /\ state = InitialState
    /\ ckpt = [state |-> InitialState, next |-> "create_analysts"]
    /\ branch = [i \in Slots |-> NoBranch]
    /\ pending = <<>>
    /\ error = "none"
    /\ crashes = 0
    /\ postOrderCalls = 0
    /\ createOrderCalls = 0
    /\ clientsBuilt = 0
    /\ execCalls = 0
    /\ rawRecommendation = <<>>
    /\ midSubmissionCrash = FALSE
    /\ callsAtCrash = 0
    /\ executed = <<>>
    /\ sized = <<>>

(* main_langgraph.py: one invocation on a new thread. *)
Init ==
    /\ RunInit
    /\ invocation = 1
    /\ fetched = NoResponse
    /\ fetchResult = <<>>

(* ---------------- the engine ---------------- *)
(* End of a superstep of the outer graph: the update is merged into the    *)
(* state, the state is checkpointed with the next node, the run moves on.  *)
CommitUnsaved(newState, next) ==
    /\ state' = newState
    /\ pc' = next
    /\ UNCHANGED ckpt

Commit(newState, next) ==
    /\ state' = newState
    /\ ckpt' = [state |-> newState, next |-> next]
    /\ pc' = next

(* A node raised: the run fails and keeps the last good checkpoint.        *)
Fail(cause) ==
    /\ pc' = "failed"
    /\ error' = cause
    /\ UNCHANGED <<state, ckpt>>

(* ---------------- analysts.py ---------------- *)
(* Conditional edge after create_analysts: "search_web_for_themes" when    *)
(* there are no themes, else one Send per analyst (none for no analysts,   *)
(* which leaves the graph without a next node: the run ends).              *)
start_interviews_or_create_better_analysts(s) ==
    IF s.analyst_themes = 0 THEN "search_web_for_themes"
    ELSE IF Len(s.analysts) = 0 THEN "END"
    ELSE "conduct_interview"

(* The tasks the router's Sends create. *)
Dispatch(s, next) ==
    IF next = "conduct_interview"
    THEN [i \in Slots |-> IF i <= Len(s.analysts) THEN SendInput(i) ELSE NoBranch]
    ELSE [i \in Slots |-> NoBranch]

AnalystList(n) == [i \in 1..n |-> i]

create_analysts ==
    /\ pc = "create_analysts"
    /\ \E n \in 0..MaxAnalysts :
         LET returned == IF state.analyst_themes = 0 THEN <<>> ELSE AnalystList(n)
             newState == [state EXCEPT !.analysts = returned]
             next == start_interviews_or_create_better_analysts(newState)
         IN /\ Commit(newState, next)
            /\ branch' = Dispatch(newState, next)
    /\ pending' = <<>>
    /\ UNCHANGED <<TRADE_EXECUTION, driverVars, error, crashes, tradeVars,
                   rawRecommendation, resumeVars, logVars>>

search_web_for_themes ==
    /\ pc = "search_web_for_themes"
    /\ \E t \in 0..MaxThemes :
         Commit([state EXCEPT !.analyst_themes = t], "create_analysts")
    /\ UNCHANGED <<TRADE_EXECUTION, driverVars, branch, pending, error, crashes, tradeVars,
                   rawRecommendation, resumeVars, logVars>>

(* ---------------- the interview subgraph ---------------- *)
Questions(msgs) == {k \in 1..Len(msgs) : msgs[k].type = "ai" /\ msgs[k].name = "none"}

(* num_responses of route_messages: the AIMessages named "expert". *)
NumResponses(msgs) ==
    Cardinality({k \in 1..Len(msgs) : msgs[k].type = "ai" /\ msgs[k].name = "expert"})

(* state.get("max_num_turns", 2) *)
MaxNumTurnsOf(b) ==
    IF b.max_num_turns = "absent" THEN DefaultMaxNumTurns ELSE b.max_num_turns

(* add_conditional_edges("answer_question", route_messages, [...]) *)
InterviewRouterTargets == {"ask_question", "save_interview"}

(* add_conditional_edges("create_analysts", ..., [...]) *)
OuterRouterTargets == {"conduct_interview", "search_web_for_themes"}

(* a router that names a node outside its declared list *)
route_messages_undeclared(b) ==
    IF NumResponses(b.messages) >= MaxNumTurnsOf(b) THEN "write_section"
    ELSE "ask_question"

(* the router with the ceiling as its only exit *)
route_messages_ignores_phrase(b) ==
    IF NumResponses(b.messages) >= MaxNumTurnsOf(b) THEN "save_interview"
    ELSE "ask_question"

(* the router with the termination phrase as its only exit *)
route_messages_no_ceiling(b) ==
    IF b.messages[Len(b.messages) - 1].thanks THEN "save_interview"
    ELSE "ask_question"

(* Router after answer_question. *)
route_messages(b) ==
    IF NumResponses(b.messages) >= MaxNumTurnsOf(b) THEN "save_interview"
    ELSE IF b.messages[Len(b.messages) - 1].thanks THEN "save_interview"
    ELSE "ask_question"

(* interview_builder.add_edge("ask_question", "search_web") *)
AfterAskQuestionSkipsSearch == "answer_question"

AfterAskQuestion == "search_web"

(* context: Annotated[list, operator.add] *)
ContextReducerReplace(old, new) == new

ContextReducer(old, new) == old \o new

InFanOut(i) == pc = "conduct_interview" /\ i \in Slots

generate_question(i) ==
    /\ InFanOut(i)
    /\ branch[i].node = "ask_question"
    /\ Cardinality(Questions(branch[i].messages)) < MaxPairs
    /\ \E thanks \in BOOLEAN :
         branch' = [branch EXCEPT
                      ![i].messages = Append(@, QuestionMessage(thanks)),
                      ![i].node = AfterAskQuestion]
    /\ UNCHANGED <<TRADE_EXECUTION, driverVars, pc, state, ckpt, pending, error, crashes,
                   tradeVars, rawRecommendation, resumeVars, logVars>>

search_web(i) ==
    /\ InFanOut(i)
    /\ branch[i].node = "search_web"
    /\ branch' = [branch EXCEPT ![i].context = ContextReducer(@, <<"doc">>),
                                ![i].node = "answer_question"]
    /\ UNCHANGED <<TRADE_EXECUTION, driverVars, pc, state, ckpt, pending, error, crashes,
                   tradeVars, rawRecommendation, resumeVars, logVars>>

(* a branch whose search raises is dropped and the others go on *)
search_web_raises_skips_branch(i) ==
    /\ InFanOut(i)
    /\ branch[i].node = "search_web"
    /\ error' = "InterviewError"
    /\ branch' = [branch EXCEPT ![i].node = "done"]
    /\ UNCHANGED <<TRADE_EXECUTION, driverVars, pc, state, ckpt, pending,
                   crashes, tradeVars, rawRecommendation, resumeVars, logVars>>

(* The search (or any completion of the branch) raises: the exception      *)
(* leaves the subgraph and the outer graph, the run fails.                 *)
search_web_raises(i) ==
    /\ InFanOut(i)
    /\ branch[i].node = "search_web"
    /\ Fail("InterviewError")
    /\ UNCHANGED <<TRADE_EXECUTION, driverVars, branch, pending, crashes, tradeVars,
                   rawRecommendation, resumeVars, logVars>>

(* the answer is appended to one transcript that every branch holds *)
generate_answer_shared(i) ==
    /\ InFanOut(i)
    /\ branch[i].node = "answer_question"
    /\ LET answered == [branch[i] EXCEPT !.messages = Append(@, AnswerMessage)]
       IN branch' = [j \in Slots |->
                       IF j = i
                       THEN [answered EXCEPT !.node = route_messages(answered)]
                       ELSE IF branch[j].node = "none" THEN branch[j]
                       ELSE [branch[j] EXCEPT !.messages = Append(@, AnswerMessage)]]
    /\ UNCHANGED <<TRADE_EXECUTION, driverVars, pc, state, ckpt, pending, error, crashes,
                   tradeVars, rawRecommendation, resumeVars, logVars>>

generate_answer(i) ==
    /\ InFanOut(i)
    /\ branch[i].node = "answer_question"
    /\ LET answered == [branch[i] EXCEPT !.messages = Append(@, AnswerMessage)]
       IN branch' = [branch EXCEPT
                       ![i] = [answered EXCEPT !.node = route_messages(answered)]]
    /\ UNCHANGED <<TRADE_EXECUTION, driverVars, pc, state, ckpt, pending, error, crashes,
                   tradeVars, rawRecommendation, resumeVars, logVars>>

save_interview(i) ==
    /\ InFanOut(i)
    /\ branch[i].node = "save_interview"
    /\ branch' = [branch EXCEPT ![i].interview = "buffer",
                                ![i].node = "write_section"]
    /\ UNCHANGED <<TRADE_EXECUTION, driverVars, pc, state, ckpt, pending, error, crashes,
                   tradeVars, rawRecommendation, resumeVars, logVars>>

(* write_section returns {"sections": [section.content]}; the subgraph     *)
(* ends and its sections value becomes the task's write to the outer       *)
(* state, kept with the checkpoint until the superstep ends.               *)
write_section(i) ==
    /\ InFanOut(i)
    /\ branch[i].node = "write_section"
    /\ \E text \in SectionTexts :
         LET written == <<[by |-> i, text |-> text, market |-> state.market]>>
         IN /\ branch' = [branch EXCEPT ![i].sections = written,
                                        ![i].node = "done"]
            /\ pending' = Append(pending, written)
    /\ UNCHANGED <<TRADE_EXECUTION, driverVars, pc, state, ckpt, error, crashes,
                   tradeVars, rawRecommendation, resumeVars, logVars>>

(* ---------------- the join ---------------- *)
(* a field without reducer: the last write replaces the value *)
SectionsReducerReplace(old, new) == new

(* sections: Annotated[List[str], operator.add] *)

SectionsReducer(old, new) == old \o new

RECURSIVE ApplyWrites(_, _)
ApplyWrites(sections, writes) ==
    IF writes = <<>> THEN sections
    ELSE ApplyWrites(SectionsReducer(sections, Head(writes)), Tail(writes))

Dispatched == {i \in Slots : branch[i].node # "none"}

JoinReadyAny == \E i \in Dispatched : branch[i].node = "done"

(* The superstep of the fan-out ends when every task has finished. *)
JoinReady == \A i \in Dispatched : branch[i].node = "done"

(* InterviewState is dropped when its task has been merged. *)
Joined(b) == IF b.node = "done"
             THEN [NoBranch EXCEPT !.node = "done", !.analyst = b.analyst]
             ELSE b

(* builder.add_edge("conduct_interview", "write_recommendation") *)
AfterConductInterviewSkipsRecommendation == "check_balances"

AfterConductInterview == "write_recommendation"

Join ==
    /\ pc = "conduct_interview"
    /\ JoinReady
    /\ Commit([state EXCEPT !.sections = ApplyWrites(@, pending)],
              AfterConductInterview)
    /\ pending' = <<>>
    /\ branch' = [i \in Slots |-> Joined(branch[i])]
    /\ UNCHANGED <<TRADE_EXECUTION, driverVars, error, crashes, tradeVars,
                   rawRecommendation, resumeVars, logVars>>

(* ---------------- trader.py: write_recommendation ---------------- *)
(* What the completion may return for the Recommendation schema. *)
RawConvictions == {-5, 0, 70, 74, 75, 100, 130}
RawOutcomeIndexes == {0, 1, 2}
RawRecommendations ==
    [outcome_index : RawOutcomeIndexes, conviction : RawConvictions]

(* Field(ge=0, le=1) of outcome_index and Field(ge=0, le=100) of conviction *)
ValidRecommendationUnchecked(r) == TRUE

ValidRecommendation(r) ==
    /\ 0 <= r.outcome_index /\ r.outcome_index <= OutcomeIndexMax
    /\ ConvictionMin <= r.conviction /\ r.conviction <= ConvictionMax

(* builder.add_edge("write_recommendation", "check_balances") *)
AfterWriteRecommendationLoop == "write_recommendation"

AfterWriteRecommendation == "check_balances"

(* with_structured_output(Recommendation) validates the completion against *)
(* the schema and raises when a constraint fails.                          *)
write_recommendation ==
    /\ pc = "write_recommendation"
    /\ \E raw \in RawRecommendations :
         /\ rawRecommendation' = <<raw>>
         /\ IF ValidRecommendation(raw)
            THEN /\ Commit([state EXCEPT !.recommendation = raw],
                        AfterWriteRecommendation)
                 /\ UNCHANGED error
            ELSE Fail("ValidationError")
    /\ UNCHANGED <<TRADE_EXECUTION, driverVars, branch, pending, crashes, tradeVars, resumeVars, sized>>
    /\ executed' = Append(executed, "write_recommendation")

(* ---------------- trade_tools.py: get_balances ---------------- *)
BalanceChoices == {0, 1000}

get_balances ==
    /\ pc = "check_balances"
    /\ \E b \in BalanceChoices :
         Commit([state EXCEPT !.balances = {<<"USDC", b>>}], "trade_configuration")
    /\ UNCHANGED <<TRADE_EXECUTION, driverVars, branch, pending, error, crashes, tradeVars,
                   rawRecommendation, resumeVars, sized>>
    /\ executed' = Append(executed, "check_balances")

(* the RPC call raises: get_balances has no handler, the run fails *)
get_balances_raises_defaulted ==
    /\ pc = "check_balances"
    /\ error' = "BalanceFetchError"
    /\ Commit([state EXCEPT !.balances = {<<"USDC", 0>>}], "trade_configuration")
    /\ UNCHANGED <<TRADE_EXECUTION, driverVars, branch, pending, crashes, tradeVars,
                   rawRecommendation, resumeVars, sized>>
    /\ executed' = Append(executed, "check_balances")

get_balances_raises ==
    /\ pc = "check_balances"
    /\ Fail("BalanceFetchError")
    /\ UNCHANGED <<TRADE_EXECUTION, driverVars, branch, pending, crashes, tradeVars,
                   rawRecommendation, resumeVars, sized>>
    /\ executed' = Append(executed, "check_balances")

(* ---------------- trader.py: trade_configuration ---------------- *)
(* The market of the run: two outcomes, their prices (in thousandths, both *)
(* inside the band fetch_active_markets keeps) and their tokens.           *)
Market ==
    [outcome_prices |-> <<400, 600>>, clob_token_ids |-> <<"token0", "token1">>]

(* The OrderDetails is whatever the completion returns for the prompt: the *)
(* schema holds an OrderArgs, which constrains no value.  Prices are in    *)
(* thousandths, sizes in units.                                            *)
OrderChoices ==
    {[token_id |-> "token0", price |-> 402, size |-> 150, side |-> "BUY"],
     [token_id |-> "token1", price |-> 603, size |-> 250, side |-> "BUY"],
     [token_id |-> "token0", price |-> 402, size |-> 1, side |-> "BUY"],
     [token_id |-> "token1", price |-> 1500, size |-> 250, side |-> "BUY"]}

(* balances["USDC"] *)
Balance(s) == CHOOSE b \in BalanceChoices : <<"USDC", b>> \in s.balances

(* market.outcome_prices[recommendation.outcome_index] *)
OutcomePrice(s) == Market.outcome_prices[s.recommendation.outcome_index + 1]

(* What get_trader_instructions puts into the prompt. *)
SizingInputs(s) ==
    [conviction |-> s.recommendation.conviction,
     balance |-> Balance(s),
     price |-> OutcomePrice(s)]

Sized(o) ==
    IF sized = <<>> THEN <<[inputs |-> SizingInputs(state), order |-> o]>>
    ELSE sized

(* get_trader_instructions reads balances["USDC"], a KeyError on the      *)
(* empty default; else the node stores the completion's OrderDetails.      *)
trade_configuration ==
    /\ pc = "trade_configuration"
    /\ IF state.balances = NoBalances
       THEN Fail("KeyError") /\ UNCHANGED sized
       ELSE \E o \in OrderChoices :
              /\ Commit([state EXCEPT !.order_details = o], "trade_execution")
              /\ sized' = Sized(o)
              /\ UNCHANGED error
    /\ executed' = Append(executed, "trade_configuration")
    /\ UNCHANGED <<TRADE_EXECUTION, driverVars, branch, pending, crashes, tradeVars,
                   rawRecommendation, resumeVars>>

(* The completion has returned an OrderDetails and the process dies before *)
(* the node's update is checkpointed.                                      *)
trade_configuration_interrupted ==
    /\ pc = "trade_configuration"
    /\ state.balances # NoBalances
    /\ crashes < MaxCrashes
    /\ \E o \in OrderChoices : sized' = Sized(o)
    /\ crashes' = crashes + 1
    /\ pc' = "crashed"
    /\ state' = ckpt.state
    /\ UNCHANGED <<TRADE_EXECUTION, driverVars, ckpt, branch, pending, error, tradeVars,
                   rawRecommendation, resumeVars, executed>>

(* ---------------- trade_tools.py: trade_execution ---------------- *)
(* if state.recommendation.conviction >= 75 *)
GateAcceptsSizingFloor(conviction) == conviction >= 60

GateAccepts(conviction) == conviction >= ExecutionThreshold

OrderResponse(status, response) == [status |-> status, response |-> response]

(* if os.getenv("TRADE_EXECUTION").lower() == "true" *)
TradeEnabledUnlessFalse(setting) == setting # "false"

(* str.lower on the values the variable takes *)
lower(setting) == IF setting = "TRUE" THEN "true" ELSE setting

TradeEnabled(setting) == lower(setting) = "true"

(* Gate rejects: no client, no call. *)
trade_execution_low_conviction ==
    /\ pc = "trade_execution"
    /\ ~GateAccepts(state.recommendation.conviction)
    /\ Commit([state EXCEPT !.order_response =
                  OrderResponse("success", "Low conviction")], "END")
    /\ execCalls' = 0
    /\ UNCHANGED <<TRADE_EXECUTION, driverVars, branch, pending, error, crashes,
                   postOrderCalls, createOrderCalls, clientsBuilt,
                   rawRecommendation, resumeVars, sized>>
    /\ executed' = Append(executed, "trade_execution")

(* _trade_execute: PolymarketTrader() raises; caught by trade_execution. *)
trade_execution_client_raises ==
    /\ pc = "trade_execution"
    /\ GateAccepts(state.recommendation.conviction)
    /\ Commit([state EXCEPT !.order_response =
                  OrderResponse("failure", "failure: client")], "END")
    /\ execCalls' = 0
    /\ UNCHANGED <<TRADE_EXECUTION, driverVars, branch, pending, error, crashes,
                   postOrderCalls, createOrderCalls, clientsBuilt,
                   rawRecommendation, resumeVars, sized>>
    /\ executed' = Append(executed, "trade_execution")

(* _trade_execute with TRADE_EXECUTION other than "true": "false" returns  *)
(* the disabled message, unset makes None.lower() raise, which is caught.  *)
trade_execution_disabled ==
    /\ pc = "trade_execution"
    /\ GateAccepts(state.recommendation.conviction)
    /\ ~TradeEnabled(TRADE_EXECUTION)
    /\ clientsBuilt' = clientsBuilt + 1
    /\ Commit([state EXCEPT !.order_response =
                  IF TRADE_EXECUTION = "unset"
                  THEN OrderResponse("failure", "failure: TRADE_EXECUTION")
                  ELSE OrderResponse("success", "Trade execution disabled")],
              "END")
    /\ execCalls' = 0
    /\ UNCHANGED <<TRADE_EXECUTION, driverVars, branch, pending, error, crashes,
                   postOrderCalls, createOrderCalls,
                   rawRecommendation, resumeVars, sized>>
    /\ executed' = Append(executed, "trade_execution")

(* client.create_order raises; caught by trade_execution. *)
trade_execution_create_order_raises ==
    /\ pc = "trade_execution"
    /\ GateAccepts(state.recommendation.conviction)
    /\ TradeEnabled(TRADE_EXECUTION)
    /\ clientsBuilt' = clientsBuilt + 1
    /\ createOrderCalls' = createOrderCalls + 1
    /\ Commit([state EXCEPT !.order_response =
                  OrderResponse("failure", "failure: create_order")], "END")
    /\ execCalls' = 0
    /\ UNCHANGED <<TRADE_EXECUTION, driverVars, branch, pending, error, crashes,
                   postOrderCalls, rawRecommendation, resumeVars, sized>>
    /\ executed' = Append(executed, "trade_execution")

(* The order is signed and client.post_order is called: the call is with   *)
(* the venue, the node has not returned, nothing has been checkpointed.    *)
trade_execution_post_order ==
    /\ pc = "trade_execution"
    /\ GateAccepts(state.recommendation.conviction)
    /\ TradeEnabled(TRADE_EXECUTION)
    /\ clientsBuilt' = clientsBuilt + 1
    /\ createOrderCalls' = createOrderCalls + 1
    /\ postOrderCalls' = postOrderCalls + 1
    /\ execCalls' = 1
    /\ pc' = "post_order"
    /\ UNCHANGED <<TRADE_EXECUTION, driverVars, state, ckpt, branch, pending, error, crashes,
                   rawRecommendation, resumeVars, logVars>>

(* What post_order does: the venue's response, a response that reports     *)
(* failure, or an exception.                                               *)
VenueOutcomes == {"accepted", "status failure", "raises"}

(* trade_execution records status "success" for every response that        *)
(* post_order returns, and "failure" in the except branch.                 *)
RecordedResponse(outcome) ==
    IF outcome = "raises" THEN OrderResponse("failure", "failure: post_order")
    ELSE OrderResponse("success", outcome)

(* the node also returns the placeholder for order_details *)
post_order_returns_clears_order ==
    /\ pc = "post_order"
    /\ \E outcome \in VenueOutcomes :
         Commit([state EXCEPT !.order_response = RecordedResponse(outcome),
                              !.order_details = PlaceholderOrder], "END")
    /\ UNCHANGED <<TRADE_EXECUTION, driverVars, branch, pending, error, crashes, tradeVars,
                   rawRecommendation, resumeVars, sized>>
    /\ executed' = Append(executed, "trade_execution")

post_order_returns ==
    /\ pc = "post_order"
    /\ \E outcome \in VenueOutcomes :
         Commit([state EXCEPT !.order_response = RecordedResponse(outcome)], "END")
    /\ UNCHANGED <<TRADE_EXECUTION, driverVars, branch, pending, error, crashes, tradeVars,
                   rawRecommendation, resumeVars, sized>>
    /\ executed' = Append(executed, "trade_execution")

(* ---------------- interruption and resume ---------------- *)
Running == pc \notin {"END", "failed", "crashed"}

(* A task that had not finished starts again from its Send input. *)
Restarted(b) ==
    IF b.node \in {"none", "done"} THEN b ELSE SendInput(b.analyst)

(* The process dies: what is not in the checkpoint store is lost. *)
Crash ==
    /\ Running
    /\ crashes < MaxCrashes
    /\ crashes' = crashes + 1
    /\ pc' = "crashed"
    /\ state' = ckpt.state
    /\ branch' = [i \in Slots |-> Restarted(branch[i])]
    /\ IF pc = "post_order"
       THEN midSubmissionCrash' = TRUE /\ callsAtCrash' = postOrderCalls
       ELSE UNCHANGED resumeVars
    /\ UNCHANGED <<TRADE_EXECUTION, driverVars, ckpt, pending, error, tradeVars,
                   rawRecommendation, logVars>>

(* graph.invoke(None, config): the run continues with the next node of     *)
(* the last checkpoint.                                                    *)
ResumePointStart(c) == "create_analysts"

ResumePoint(c) == c.next

Resume ==
    /\ pc = "crashed"
    /\ pc' = ResumePoint(ckpt)
    /\ state' = ckpt.state
    /\ UNCHANGED <<TRADE_EXECUTION, driverVars, ckpt, branch, pending, error, crashes,
                   tradeVars, rawRecommendation, resumeVars, logVars>>

Next ==
    \/ create_analysts
    \/ search_web_for_themes
    \/ \E i \in Slots : generate_question(i)
    \/ \E i \in Slots : search_web(i)
    \/ \E i \in Slots : search_web_raises(i)
    \/ \E i \in Slots : generate_answer(i)
    \/ \E i \in Slots : save_interview(i)
    \/ \E i \in Slots : write_section(i)
    \/ Join
    \/ write_recommendation
    \/ get_balances
    \/ get_balances_raises
    \/ trade_configuration
    \/ trade_configuration_interrupted
    \/ trade_execution_low_conviction
    \/ trade_execution_client_raises
    \/ trade_execution_disabled
    \/ trade_execution_create_order_raises
    \/ trade_execution_post_order
    \/ post_order_returns
    \/ Crash
    \/ Resume

(* ---------------- data_fetchers.py: fetch_active_markets ---------------- *)
(* outcomePrices an item of the response can carry, in thousandths *)
RawPriceLists ==
    {<<>>, <<500>>, <<500, 500>>, <<100, 900>>, <<900, 100>>, <<101, 899>>,
     <<150, 850>>, <<850, 150>>, <<500, 950>>, <<50, 500>>}

(* An item of markets_data: "ok" makes a Market, "invalid" fails the       *)
(* Market validation, "malformed" raises another exception (no             *)
(* conditionId, not a dict); held: the user has a position in it of a size *)
(* above 0.1.                                                              *)
RawMarkets ==
    [form : {"ok"}, outcome_prices : RawPriceLists,
     enable_order_book : BOOLEAN, held : BOOLEAN]
    \cup {[form |-> f, outcome_prices |-> <<500, 500>>,
           enable_order_book |-> TRUE, held |-> FALSE] :
             f \in {"invalid", "malformed"}}

RawLists == UNION {[1..n -> RawMarkets] : n \in 0..MaxFetched}

Responses == {NoResponse} \cup {[ok |-> TRUE, data |-> d] : d \in RawLists}

(* market.outcome_prices[0] if market.outcome_prices else 0 *)
yes_odds(m) == IF Len(m.outcome_prices) > 0 THEN m.outcome_prices[1] ELSE 0

(* market.outcome_prices[1] if len(market.outcome_prices) > 1 else 0 *)
no_odds(m) == IF Len(m.outcome_prices) > 1 THEN m.outcome_prices[2] ELSE 0

(* lo < yes_odds < hi and lo < no_odds < hi *)
InBandInclusive(lo, hi, m) ==
    /\ lo <= yes_odds(m) /\ yes_odds(m) <= hi
    /\ lo <= no_odds(m) /\ no_odds(m) <= hi

InBand(lo, hi, m) ==
    /\ lo < yes_odds(m) /\ yes_odds(m) < hi
    /\ lo < no_odds(m) /\ no_odds(m) < hi

(* What the positions request does: it answers, or it raises (timeout,    *)
(* HTTP error, a body that is not the expected list).                      *)
PositionLookups == {"ok", "raises"}

(* market_data["conditionId"] in fetch_user_positions(): the condition ids *)
(* of the positions above 0.1, or set() when the request raised.           *)
fetch_user_positions(lookup, m) == lookup = "ok" /\ m.held

(* the loop body of app/data_fetchers.py: positions, validation, band *)
KeptApp(lookup, m) ==
    /\ ~fetch_user_positions(lookup, m)
    /\ m.form = "ok"
    /\ InBand(BandLow, BandHigh, m)

(* the loop body of src/data_fetchers.py: validation, band *)
KeptSrc(m) == m.form = "ok" /\ InBand(SrcBandLow, SrcBandHigh, m)

OrderBookEnabled(m) == m.enable_order_book

(* except requests.RequestException / except Exception: return [] *)
Raises(response) ==
    \/ ~response.ok
    \/ \E k \in 1..Len(response.data) : response.data[k].form = "malformed"

(* app/data_fetchers.py *)
fetch_active_markets ==
    /\ fetchResult = <<>>
    /\ \E lookup \in PositionLookups :
         LET Kept(m) == KeptApp(lookup, m)
         IN fetchResult' =
              <<[by |-> "app",
                 positions |-> lookup,
                 markets |-> IF Raises(fetched) THEN <<>>
                             ELSE SelectSeq(SelectSeq(fetched.data, Kept),
                                            OrderBookEnabled)]>>
    /\ UNCHANGED <<TRADE_EXECUTION, invocation, fetched, pc, state, ckpt,
                   branch, pending, error, crashes, tradeVars,
                   rawRecommendation, resumeVars, logVars>>

(* src/data_fetchers.py *)
fetch_active_markets_src ==
    /\ fetchResult = <<>>
    /\ fetchResult' =
         <<[by |-> "src",
            positions |-> "unused",
            markets |-> IF Raises(fetched) THEN <<>>
                        ELSE SelectSeq(SelectSeq(fetched.data, KeptSrc),
                                       OrderBookEnabled)]>>
    /\ UNCHANGED <<TRADE_EXECUTION, invocation, fetched, pc, state, ckpt,
                   branch, pending, error, crashes, tradeVars,
                   rawRecommendation, resumeVars, logVars>>

(* One call of fetch_active_markets on any answer of the endpoint. *)
FetchInit ==
    /\ RunInit
    /\ invocation = 1
    /\ fetched \in Responses
    /\ fetchResult = <<>>

FetchNext == fetch_active_markets \/ fetch_active_markets_src

FetchSpec == FetchInit /\ [][FetchNext]_vars

(* ---------------- the driver's loop over markets ---------------- *)
(* GenerateAnalystsState(market=market, ...).model_dump(): the keys an     *)
(* invocation writes; market m is the m-th of the fetched list.            *)
InvokeInput(m) == [market |-> m, analysts |-> <<>>, analyst_themes |-> 0]

(* for market in markets: graph.invoke(input, config) with the thread_id   *)
(* made before the loop.  The thread's saved values are the start of the   *)
(* run; the input replaces its own keys only.  The counters and logs of    *)
(* the model are per invocation.                                           *)
invoke_next_market ==
    /\ pc = "END"
    /\ invocation < MaxMarkets
    /\ invocation' = invocation + 1
    /\ LET input == InvokeInput(invocation + 1)
       IN Commit([state EXCEPT !.market = input.market,
                               !.analysts = input.analysts,
                               !.analyst_themes = input.analyst_themes],
                 "create_analysts")
    /\ branch' = [i \in Slots |-> NoBranch]
    /\ pending' = <<>>
    /\ postOrderCalls' = 0
    /\ createOrderCalls' = 0
    /\ clientsBuilt' = 0
    /\ execCalls' = 0
    /\ rawRecommendation' = <<>>
    /\ executed' = <<>>
    /\ sized' = <<>>
    /\ UNCHANGED <<TRADE_EXECUTION, fetched, fetchResult, error, crashes,
                   resumeVars>>

(* Uninterrupted runs of the loop of app/main.py on one thread. *)
DriverNext ==
    \/ create_analysts
    \/ search_web_for_themes
    \/ \E i \in Slots : generate_question(i)
    \/ \E i \in Slots : search_web(i)
    \/ \E i \in Slots : search_web_raises(i)
    \/ \E i \in Slots : generate_answer(i)
    \/ \E i \in Slots : save_interview(i)
    \/ \E i \in Slots : write_section(i)
    \/ Join
    \/ write_recommendation
    \/ get_balances
    \/ get_balances_raises
    \/ trade_configuration
    \/ trade_execution_low_conviction
    \/ trade_execution_client_raises
    \/ trade_execution_disabled
    \/ trade_execution_create_order_raises
    \/ trade_execution_post_order
    \/ post_order_returns
    \/ invoke_next_market

DriverSpec == Init /\ [][DriverNext]_vars

Spec == Init /\ [][Next]_vars

(* ======================= claims ======================= *)
Conviction == state.recommendation.conviction
Ended == pc = "END"
(* the run went through trade_configuration: a sized order is stored *)
OrderComputed == state.order_details \in OrderChoices

PostJoinStages ==
    {"write_recommendation", "check_balances", "trade_configuration",
     "trade_execution", "post_order"}

(* C1: in every run, across crashes and resumes, post_order is called at   *)
(* most once.                                                              *)
C1_AtMostOneSubmission == postOrderCalls <= 1

(* C2: a run resumed after a crash that hit between the venue call and    *)
(* its checkpoint issues no further post_order call and ends in an         *)
(* explicit ambiguous-state error.                                         *)
C2_ResumeSurfacesAmbiguousAttempt ==
    (midSubmissionCrash /\ pc # "crashed") =>
        /\ postOrderCalls = callsAtCrash
        /\ pc = "failed"
        /\ error = "AmbiguousSubmission"

(* The only thing trade_execution ever writes is order_response, so a      *)
(* checkpoint can tell of a submission only by it or by its next node.     *)
CheckpointRecordsAttempt ==
    \/ ckpt.next # "trade_execution"
    \/ ckpt.state.order_response # DefaultOrderResponse

(* C3: no state has the venue call issued while the latest checkpoint      *)
(* does not yet record the attempt.                                        *)
C3_AttemptCheckpointedBeforeCall ==
    postOrderCalls > 0 => CheckpointRecordsAttempt

(* C4: with conviction below the threshold of 75 no client is built and    *)
(* no order is created or posted, and the run that reached                 *)
(* trade_execution with a sized order ends with the low-conviction skip    *)
(* recorded.                                                               *)
C4_LowConvictionSkips ==
    Conviction < ExecutionThreshold =>
        /\ postOrderCalls = 0
        /\ createOrderCalls = 0
        /\ clientsBuilt = 0
        /\ (Ended /\ OrderComputed) =>
               state.order_response = OrderResponse("success", "Low conviction")

C4_Witness ==
    /\ Ended
    /\ Conviction = 70
    /\ OrderComputed
    /\ state.order_response = OrderResponse("success", "Low conviction")
    /\ postOrderCalls = 0

(* C5 as stated: a run that reached trade_execution with conviction >= 75  *)
(* has issued exactly one post_order call when it ends.                    *)
C5_AcceptedGateSubmitsOnce ==
    (Ended /\ OrderComputed /\ Conviction >= ExecutionThreshold) =>
        postOrderCalls = 1

RaisedBeforePost ==
    state.order_response.response \in {"failure: client", "failure: create_order"}

(* C5 amended: an execution of trade_execution that completes with         *)
(* conviction >= 75 has issued exactly one post_order call when            *)
(* TRADE_EXECUTION is "true" in some letter case and neither the client    *)
(* construction nor create_order raised, and none otherwise.               *)
C5_AcceptedGateSubmitsOnceWhenEnabled ==
    (Ended /\ OrderComputed /\ Conviction >= ExecutionThreshold) =>
        execCalls = IF lower(TRADE_EXECUTION) = "true" /\ ~RaisedBeforePost THEN 1 ELSE 0

C5_Witness ==
    /\ Ended
    /\ Conviction >= ExecutionThreshold
    /\ TRADE_EXECUTION = "true"
    /\ execCalls = 1
    /\ postOrderCalls = 1
    /\ state.order_response.response = "accepted"

(* C6: every interview branch holds at most max_turns + 1 questions and    *)
(* at most max_turns + 1 answers, whatever the questions contain.          *)
C6_InterviewLoopBounded ==
    \A i \in Slots :
        /\ NumResponses(branch[i].messages) <= MaxNumTurnsOf(branch[i]) + 1
        /\ Cardinality(Questions(branch[i].messages)) <= MaxNumTurnsOf(branch[i]) + 1

(* a branch left the loop by the turn ceiling, no question having thanked *)
C6_Witness ==
    \E i \in Slots :
        /\ branch[i].node = "save_interview"
        /\ NumResponses(branch[i].messages) = DefaultMaxNumTurns
        /\ \A k \in 1..Len(branch[i].messages) : ~branch[i].messages[k].thanks

C8_JoinIsBarrier ==
    (pc \in PostJoinStages \/ rawRecommendation # <<>>) =>
        /\ \A i \in Dispatched : branch[i].node = "done"
        /\ Cardinality(Dispatched) = Len(state.analysts)

C8_Witness ==
    /\ pc = "write_recommendation"
    /\ Len(state.analysts) = 2
    /\ \A i \in 1..2 : branch[i].node = "done"

(* C9: with an empty analyst list the run is never at the fan-out, at      *)
(* write_recommendation or later, or at the end of the graph.              *)
C9_NoAnalystsRegenerates ==
    Len(state.analysts) = 0 =>
        pc \notin (PostJoinStages \cup {"conduct_interview", "END"})

ClampConviction(c) ==
    IF c < ConvictionMin THEN ConvictionMin
    ELSE IF c > ConvictionMax THEN ConvictionMax ELSE c

RecommendationInRange ==
    /\ state.recommendation.outcome_index \in 0..OutcomeIndexMax
    /\ state.recommendation.conviction \in ConvictionMin..ConvictionMax

RawOutOfRange ==
    /\ rawRecommendation # <<>>
    /\ \/ rawRecommendation[1].conviction \notin ConvictionMin..ConvictionMax
       \/ rawRecommendation[1].outcome_index \notin 0..OutcomeIndexMax

(* C10 as stated: the stored recommendation is in range, and a completion  *)
(* with an out-of-range conviction is stored clamped and the run goes on.  *)
C10_OutOfRangeConvictionClamped ==
    /\ RecommendationInRange
    /\ (rawRecommendation # <<>> /\
        rawRecommendation[1].conviction \notin ConvictionMin..ConvictionMax) =>
           /\ Conviction = ClampConviction(rawRecommendation[1].conviction)
           /\ pc # "failed"

(* C10 amended: the stored recommendation is in range; a completion with   *)
(* an out-of-range conviction or outcome index is rejected by the schema:  *)
(* nothing is stored and the run fails at write_recommendation.            *)
C10_OutOfRangeRecommendationRejected ==
    /\ RecommendationInRange
    /\ RawOutOfRange =>
           /\ pc = "failed"
           /\ error = "ValidationError"
           /\ state.recommendation = DefaultRecommendation

C10_Witness ==
    /\ rawRecommendation # <<>>
    /\ rawRecommendation[1].conviction = 130
    /\ pc = "failed"
    /\ error = "ValidationError"

(* ---------------- order sizing ---------------- *)
Min(a, b) == IF a <= b THEN a ELSE b
Count(seq, x) == Cardinality({k \in 1..Len(seq) : seq[k] = x})
OrderOf == state.order_details

(* C11: two executions of trade_configuration given the same conviction,   *)
(* balance and outcome price produce the same order: the order stored for  *)
(* some inputs is the order an earlier execution obtained for them.        *)
C11_SizingDeterministic ==
    (OrderComputed /\ sized # <<>> /\ sized[1].inputs = SizingInputs(state))
        => OrderOf = sized[1].order

(* C12: every order that sizing produces has a size of at least 5 and a    *)
(* notional, size times price, of at least 1 (prices in thousandths).      *)
C12_OrderAboveMinimums ==
    OrderComputed =>
        /\ OrderOf.size >= MinOrderSize
        /\ OrderOf.size * OrderOf.price >= MinNotional * 1000

(* C13: for a conviction below 60 no order is stored in the run's state.   *)
C13_BelowFloorStoresNoOrder ==
    Conviction < SizingFloor => ~OrderComputed

(* min(0.15 B, 1000) for 60 <= c <= 80, min(0.25 B, 1000) for c > 80 *)
TargetSize(c, B) ==
    IF c > HighConviction THEN Min((25 * B) \div 100, MaxTradeSize)
    ELSE Min((15 * B) \div 100, MaxTradeSize)

(* C14: the size of the order computed for a conviction of 60 or more is   *)
(* min(0.15 B, 1000) up to 80 and min(0.25 B, 1000) above; it exceeds      *)
(* neither 1000 nor a quarter of the balance.                              *)
C14_SizeFollowsTiers ==
    (OrderComputed /\ Conviction >= SizingFloor) =>
        /\ OrderOf.size = TargetSize(Conviction, Balance(state))
        /\ OrderOf.size <= MaxTradeSize
        /\ 4 * OrderOf.size <= Balance(state)

(* the market price plus 0.5%, at most 1 (prices in thousandths) *)
PremiumPrice(p) == Min(p + (5 * p) \div 1000, 1000)

(* C15: every order stored has the price of the recommended outcome plus   *)
(* 0.5%, and that price lies in (0, 1].                                    *)
C15_PriceIsMarketPlusPremium ==
    OrderComputed =>
        /\ OrderOf.price = PremiumPrice(OutcomePrice(state))
        /\ 0 < OrderOf.price /\ OrderOf.price <= 1000

(* C16: a state that holds a computed order holds the recommendation that  *)
(* write_recommendation produced and a balance that check_balances         *)
(* fetched, and both nodes ran to their end before trade_configuration.    *)
C16_OrderAfterRecommendationAndBalance ==
    OrderComputed =>
        /\ rawRecommendation # <<>>
        /\ state.recommendation = rawRecommendation[1]
        /\ state.balances # NoBalances
        /\ Len(executed) >= 3
        /\ SubSeq(executed, 1, 3) =
             <<"write_recommendation", "check_balances", "trade_configuration">>

C16_Witness ==
    /\ OrderComputed
    /\ pc = "trade_execution"
    /\ state.recommendation.conviction = 70
    /\ state.balances = {<<"USDC", 1000>>}

(* C17: write_recommendation never runs to its end twice in a run, never   *)
(* before every dispatched interview has been joined, and has run exactly  *)
(* once in every run that is past it, for any number of interviews and of  *)
(* passes through create_analysts and search_web_for_themes.               *)
C17_RecommendationWrittenOnce ==
    /\ Count(executed, "write_recommendation") <= 1
    /\ executed # <<>> =>
         /\ executed[1] = "write_recommendation"
         /\ Dispatched # {}
         /\ \A i \in Dispatched : branch[i].node = "done"
    /\ (pc \in PostJoinStages \ {"write_recommendation"}) =>
         Count(executed, "write_recommendation") = 1
    /\ (pc \notin PostJoinStages /\ Running) => executed = <<>>

C17_Witness ==
    /\ Ended
    /\ Count(executed, "write_recommendation") = 1
    /\ Cardinality(Dispatched) = MaxAnalysts
    /\ state.analyst_themes > 0
    /\ crashes > 0

(* C18: when the balance fetch raises, the run has failed with no balance  *)
(* in its state, neither trade_configuration nor trade_execution has run,  *)
(* and no order was computed or submitted.                                 *)
C18_BalanceFailureIsFatal ==
    error = "BalanceFetchError" =>
        /\ pc = "failed"
        /\ state.balances = NoBalances
        /\ state.order_details = PlaceholderOrder
        /\ state.order_response = DefaultOrderResponse
        /\ executed = <<"write_recommendation", "check_balances">>
        /\ sized = <<>>
        /\ postOrderCalls = 0 /\ createOrderCalls = 0

C18_Witness ==
    /\ error = "BalanceFetchError"
    /\ pc = "failed"
    /\ state.recommendation.conviction >= ExecutionThreshold

(* C19: when post_order raised or the venue rejected the order, the        *)
(* recorded status is a failure and post_order was called once.            *)
C19_FailedSubmissionEndsFailed ==
    state.order_response.response \in {"status failure", "failure: post_order"}
        => /\ state.order_response.status = "failure"
           /\ execCalls = 1

(* C20: across crashes and resumes no node that ran to its end runs again: *)
(* the nodes after the join that have completed are a prefix, without      *)
(* repetition, of the graph's order, and a running outer graph is at the   *)
(* next node of its last checkpoint.                                       *)
StageOrder ==
    <<"write_recommendation", "check_balances", "trade_configuration",
      "trade_execution">>

OuterNodes ==
    {"create_analysts", "search_web_for_themes", "conduct_interview",
     "write_recommendation", "check_balances", "trade_configuration",
     "trade_execution"}

Answered(b) == [b EXCEPT !.messages = Append(@, AnswerMessage)]

(* C22: in every reachable state each router returns a name of its         *)
(* declared list: route_messages "ask_question" or "save_interview", the   *)
(* router after create_analysts "search_web_for_themes" or Sends to        *)
(* "conduct_interview" only (none when there is no analyst).               *)
C22_RoutersReturnDeclaredNames ==
    /\ \A i \in Slots :
         (pc = "conduct_interview" /\ branch[i].node = "answer_question")
            => route_messages(Answered(branch[i])) \in InterviewRouterTargets
    /\ pc = "create_analysts" =>
         \A n \in 0..MaxAnalysts :
            LET s == [state EXCEPT !.analysts = AnalystList(n)]
                next == start_interviews_or_create_better_analysts(s)
            IN \/ next \in OuterRouterTargets
               \/ next = "END" /\ n = 0
    /\ \A i \in Slots :
         branch[i].node \in
            {"none", "done", "ask_question", "search_web", "answer_question",
             "save_interview", "write_section"}

C22_Witness ==
    /\ pc = "conduct_interview"
    /\ \E i, j \in Slots :
         /\ branch[i].node = "ask_question"
         /\ NumResponses(branch[i].messages) = 1
         /\ branch[j].node = "save_interview"

(* ---------------- the driver's loop ---------------- *)
(* the keys of RunState that an invocation's input does not carry *)
Carried(s) ==
    [sections |-> s.sections, final_report |-> s.final_report,
     recommendation |-> s.recommendation, balances |-> s.balances,
     order_details |-> s.order_details, order_response |-> s.order_response]

(* C23: the state a market's run uses holds nothing of another market's    *)
(* run: every section in it was written for its own market, and the run    *)
(* starts with no sections, recommendation, balance, order or response.    *)
C23_RunsIsolated ==
    /\ \A k \in 1..Len(state.sections) :
          state.sections[k].market = state.market
    /\ (pc = "create_analysts" /\ state.analyst_themes = 0)
          => Carried(state) = Carried(InitialState)

(* ---------------- interview branches ---------------- *)
(* C24: a failed interview branch is handled one way: whichever branch     *)
(* raised and whatever the others had done, the run has failed, no         *)
(* section was joined and there is no recommendation, order or venue call. *)
C24_BranchFailureFailsRun ==
    error = "InterviewError" =>
        /\ pc = "failed"
        /\ executed = <<>>
        /\ rawRecommendation = <<>>
        /\ Carried(state) = Carried(InitialState)
        /\ sized = <<>>
        /\ postOrderCalls = 0 /\ createOrderCalls = 0 /\ clientsBuilt = 0

(* the second branch raised after the first had written its section *)
C24_Witness ==
    /\ error = "InterviewError"
    /\ pc = "failed"
    /\ branch[1].node = "done"
    /\ branch[2].node = "search_web"
    /\ Len(branch[2].context) = 1

(* C25: the joined sections hold equal contributions once: no two entries  *)
(* of the list have the same text.                                         *)
C25_JoinedSectionsDeduplicated ==
    \A j, k \in 1..Len(state.sections) :
        j # k => state.sections[j].text # state.sections[k].text

(* ---------------- fetch_active_markets ---------------- *)
(* both prices present and strictly inside (lo, hi) *)
TwoPricesInside(lo, hi, m) ==
    /\ Len(m.outcome_prices) >= 2
    /\ lo < m.outcome_prices[1] /\ m.outcome_prices[1] < hi
    /\ lo < m.outcome_prices[2] /\ m.outcome_prices[2] < hi

ClaimedQualifies(m) == TwoPricesInside(100, 900, m) /\ m.enable_order_book
AppQualifies(m) == ClaimedQualifies(m) /\ m.form = "ok"
SrcQualifies(m) ==
    TwoPricesInside(200, 800, m) /\ m.enable_order_book /\ m.form = "ok"

Undisturbed ==
    /\ fetched.ok
    /\ \A k \in 1..Len(fetched.data) : fetched.data[k].form # "malformed"

Asked(b) == Cardinality(Questions(b.messages))
Searched(b) == Len(b.context)

(* C27: a branch runs ask_question, search_web, answer_question and the    *)
(* router in that order: at every node the questions, searches and         *)
(* answers so far are those of whole rounds plus the started one;          *)
(* save_interview and write_section run once after the last answer, and a  *)
(* finished branch has produced one section.                               *)
C27_BranchStagesInOrder ==
    \A i \in Slots :
        LET b == branch[i]
            Q == Asked(b)
            S == Searched(b)
            A == NumResponses(b.messages)
        IN pc = "conduct_interview" =>
            /\ b.node = "ask_question" =>
                 Q = A /\ S = A /\ b.interview = "absent" /\ b.sections = <<>>
            /\ b.node = "search_web" =>
                 Q = A + 1 /\ S = A /\ b.interview = "absent"
            /\ b.node = "answer_question" =>
                 Q = A + 1 /\ S = A + 1 /\ b.interview = "absent"
            /\ b.node = "save_interview" =>
                 Q = A /\ S = A /\ A >= 1 /\ b.interview = "absent"
            /\ b.node = "write_section" =>
                 Q = A /\ S = A /\ b.interview = "buffer" /\ b.sections = <<>>
            /\ b.node = "done" =>
                 Q = A /\ S = A /\ b.interview = "buffer" /\ Len(b.sections) = 1

C27_Witness ==
    /\ pc = "conduct_interview"
    /\ branch[1].node = "done"
    /\ NumResponses(branch[1].messages) = 2
    /\ branch[2].node = "answer_question"
    /\ Asked(branch[2]) = 2

(* the latest question of a transcript *)
LastQuestion(msgs) ==
    msgs[CHOOSE k \in Questions(msgs) : \A j \in Questions(msgs) : j <= k]

(* two expert answers, or the latest question holds the closing phrase *)
MustTerminate(msgs) == NumResponses(msgs) >= 2 \/ LastQuestion(msgs).thanks

ContextStep(i) ==
    LET b == branch[i]
        after == branch'[i]
    IN IF pc = "conduct_interview" /\ b.node = "search_web"
          /\ after.node = "answer_question"
       THEN after.context = Append(b.context, "doc")
       ELSE \/ after.context = b.context
            \/ after = SendInput(after.analyst)
            \/ after.node \in {"none", "done"} /\ after.context = <<>>

(* C29: the evidence list of a branch only grows: every search_web appends *)
(* one document at the end, every other step of the branch leaves the list *)
(* as it is (the list goes when the branch state is created anew or        *)
(* dropped), and at write_section it has one entry for each search_web     *)
(* execution, which is one for each question.                              *)
C29_ContextOnlyGrows ==
    /\ [][\A i \in Slots : ContextStep(i)]_vars
    /\ [](\A i \in Slots :
             (pc = "conduct_interview" /\ branch[i].node = "write_section")
                => /\ Searched(branch[i]) = Asked(branch[i])
                   /\ \A k \in 1..Searched(branch[i]) :
                         branch[i].context[k] = "doc")

C29_Witness ==
    /\ pc = "conduct_interview"
    /\ branch[1].node = "write_section"
    /\ Searched(branch[1]) = 2
    /\ branch[2].node = "write_section"
    /\ Searched(branch[2]) = 1

IsQuestion(m) == m.type = "ai" /\ m.name = "none"
IsAnswer(m) == m.type = "ai" /\ m.name = "expert"

(* seed, then question, answer, question, answer, ... *)
Alternates(msgs) ==
    /\ msgs[1] = SeedMessage
    /\ \A k \in 2..Len(msgs) :
          IF k % 2 = 0 THEN IsQuestion(msgs[k]) ELSE IsAnswer(msgs[k])

(* C30: the transcript of a branch is the seed message followed by         *)
(* alternating question and answer turns that begin with a question; the   *)
(* questions exceed the answers by at most one, and they are as many when  *)
(* the router runs (right after an answer).                                *)
C30_TranscriptAlternates ==
    \A i \in Slots :
        LET b == branch[i]
            Q == Asked(b)
            A == NumResponses(b.messages)
        IN b.messages # <<>> =>
            /\ Alternates(b.messages)
            /\ Len(b.messages) = 1 + Q + A
            /\ Q = A \/ Q = A + 1
            /\ b.node = "answer_question" =>
                 /\ Alternates(Answered(b).messages)
                 /\ Asked(Answered(b)) = NumResponses(Answered(b).messages)
            /\ b.node \in {"save_interview", "write_section", "done"} => Q = A

C30_Witness ==
    /\ pc = "conduct_interview"
    /\ Len(branch[1].messages) = 5
    /\ branch[1].node = "save_interview"
    /\ branch[2].node = "search_web"
    /\ Len(branch[2].messages) = 4
(* ---------------- one uninterrupted run ---------------- *)
(* graph.invoke on a process that is not interrupted: the engine runs the  *)
(* next node as long as the graph has one, so a step of the run is taken   *)
(* whenever one is possible. What a completion returns is not scheduled:   *)
(* no fairness is stated for any particular answer.                        *)
RunNext ==
    \/ create_analysts
    \/ search_web_for_themes
    \/ \E i \in Slots : generate_question(i)
    \/ \E i \in Slots : search_web(i)
    \/ \E i \in Slots : search_web_raises(i)
    \/ \E i \in Slots : generate_answer(i)
    \/ \E i \in Slots : save_interview(i)
    \/ \E i \in Slots : write_section(i)
    \/ Join
    \/ write_recommendation
    \/ get_balances
    \/ get_balances_raises
    \/ trade_configuration
    \/ trade_execution_low_conviction
    \/ trade_execution_client_raises
    \/ trade_execution_disabled
    \/ trade_execution_create_order_raises
    \/ trade_execution_post_order
    \/ post_order_returns

LiveSpec == Init /\ [][RunNext]_vars /\ WF_vars(RunNext)

(* ---------------- C31 ---------------- *)
(* the fields of a branch that its own stages write *)
Own(b) == <<b.messages, b.context, b.max_num_turns, b.interview, b.sections>>

(* C31: sibling interview branches share no mutable state. While the      *)
(* fan-out runs, a step that changes one branch leaves every other branch  *)
(* exactly as it was, the changed branch still belongs to its own analyst, *)
(* and the stage it moves to after an answer is the router's result on     *)
(* that branch's own transcript.                                           *)
C31_BranchesShareNoState ==
    [][(pc = "conduct_interview" /\ pc' = "conduct_interview") =>
         \A i \in Slots :
            branch'[i] # branch[i] =>
              /\ \A j \in Slots \ {i} : branch'[j] = branch[j]
              /\ branch'[i].analyst = i
              /\ branch[i].node = "answer_question" =>
                    branch'[i].node = route_messages(branch'[i])]_vars

(* one branch has finished its interview while its sibling, dispatched in  *)
(* the same fan-out, still holds nothing but its seed message              *)
C31_Witness ==
    /\ pc = "conduct_interview"
    /\ Dispatched = Slots
    /\ \E i, j \in Slots :
         /\ i # j
         /\ branch[i].node = "done"
         /\ Len(branch[i].context) > 0
         /\ Own(branch[j]) = Own(SendInput(j))
ConfigurationCompleted == ckpt.next \in {"trade_execution", "END"}

(* C33: each trade stage changes only its own field of the state. A step   *)
(* that completes check_balances changes at most balances, one that        *)
(* completes trade_configuration at most order_details, a step of          *)
(* trade_execution at most order_response; and once trade_configuration    *)
(* has completed, order_details is the same after every step of the run,   *)
(* in the state and in the checkpoint.                                     *)
C33_StagesChangeOwnField ==
    [][/\ (pc = "check_balances" /\ pc' = "trade_configuration") =>
            state' = [state EXCEPT !.balances = state'.balances]
       /\ (pc = "trade_configuration" /\ pc' = "trade_execution") =>
            state' = [state EXCEPT !.order_details = state'.order_details]
       /\ (pc \in {"trade_execution", "post_order"} /\ pc' \in {"post_order", "END"}) =>
            state' = [state EXCEPT !.order_response = state'.order_response]
       /\ ConfigurationCompleted =>
            /\ state'.order_details = state.order_details
            /\ ckpt'.state.order_details = ckpt.state.order_details]_vars

(* the three stages have run: a balance, an order and the response of a    *)
(* submitted order are stored, and the order is still the one stored by    *)
(* trade_configuration                                                     *)
C33_Witness ==
    /\ pc = "END"
    /\ state.balances # NoBalances
    /\ OrderComputed
    /\ execCalls = 1
    /\ state.order_response.response = "accepted"
    /\ sized # <<>>
(* ---------------- C34 ---------------- *)
(* responses that stand for an accepted order or a deliberate skip *)
AcceptedOrSkipped == {"accepted", "Low conviction", "Trade execution disabled"}

(* C34: the recorded order_response reflects the outcome of the            *)
(* submission: status "success" is recorded only with an accepted order or *)
(* a deliberate skip, and every other outcome (a response that reports     *)
(* failure, an exception) is recorded with status "failure".               *)
C34_StatusReflectsOutcome ==
    state.order_response # DefaultOrderResponse =>
        (state.order_response.status = "success"
            <=> state.order_response.response \in AcceptedOrSkipped)
(* ---------------- C35 ---------------- *)
(* no order was created or posted, and trade_execution, once it has run,   *)
(* has ended the run with an order_response recorded                       *)
NoOrderAndCompletes ==
    /\ createOrderCalls = 0
    /\ postOrderCalls = 0
    /\ pc # "post_order"
    /\ Count(executed, "trade_execution") > 0 =>
          /\ Ended
          /\ state.order_response # DefaultOrderResponse

C36_VenueCallOnlyForSizedOrder ==
    pc = "post_order" =>
        /\ OrderOf # PlaceholderOrder
        /\ TargetSize(Conviction, Balance(state)) >= MinOrderSize
        /\ OrderOf.size >= MinOrderSize
        /\ OrderOf.size * OrderOf.price >= MinNotional * 1000
(* ---------------- C37 ---------------- *)
(* C37: every order stored or submitted is a BUY of the market's token for *)
(* the recommended outcome, clob_token_ids[outcome_index], and the         *)
(* recommended outcome_index is a valid index into the market's price and  *)
(* token lists (which the model indexes from 1).                           *)
C37_OrderBuysRecommendedToken ==
    /\ state.recommendation.outcome_index + 1 \in DOMAIN Market.clob_token_ids
    /\ state.recommendation.outcome_index + 1 \in DOMAIN Market.outcome_prices
    /\ OrderComputed =>
          /\ OrderOf.side = "BUY"
          /\ OrderOf.token_id =
                Market.clob_token_ids[state.recommendation.outcome_index + 1]
(* ---------------- C38 ---------------- *)
(* C38: fetch_active_markets of app/data_fetchers.py never returns a       *)
(* market in which the user holds a position of a size above 0.1, also     *)
(* when the positions lookup fails.                                        *)
C38_NeverReturnsHeldMarket ==
    (fetchResult # <<>> /\ fetchResult[1].by = "app") =>
        \A k \in 1..Len(fetchResult[1].markets) : ~fetchResult[1].markets[k].held

====
